---- MODULE Spec2Model ----
(***************************************************************************)
(* Backster chat client: the conversation controller of                    *)
(* src/frontend/src/App.tsx (component App) as a state machine.            *)
(*                                                                         *)
(* React state (useState) is one variable per hook.  A handler invoked by  *)
(* a UI event runs against the state of the latest render, and all the     *)
(* setState calls of one synchronous run are committed together, so a      *)
(* handler up to its first await is one action and the continuation after  *)
(* the await is another.  JavaScript strings are sequences of one-character*)
(* strings so that String.prototype.trim is computed; fixed literals are   *)
(* one-element sequences holding the literal.                              *)
(***************************************************************************)
EXTENDS Integers, Sequences, FiniteSets, TLC

\* ------------------------------------------------------------------ bounds
MaxDispatch == 2      \* accepted sendMessage calls per behaviour
MaxCites == 2         \* longest sources/contents array in a /chat response
MaxReselect == 1      \* selections made after the selection buttons are gone
MaxNext == 2          \* handleNext calls counted since the browser was opened

\* ------------------------------------------------------- JavaScript values
Null == <<"null">>
Undefined == <<"undefined">>
EmptyString == <<>>
NaN == 0 - 1

\* The remainder operator %: NaN when an operand is NaN or the divisor is 0,
\* otherwise the remainder with the sign of the dividend.
JsRem(a, n) ==
    IF a = NaN \/ n = 0 THEN NaN
    ELSE IF a >= 0 THEN a % n
    ELSE 0 - ((0 - a) % n)

JsAdd(a, b) == IF a = NaN THEN NaN ELSE a + b

Whitespace == {" ", "\t", "\n"}

\* Texts the user types: empty, whitespace only, and a word with whitespace
\* around it.
InputValues == {<<>>, <<" ">>, <<" ", "a", " ">>}

RECURSIVE TrimStart(_)
TrimStart(s) ==
    IF s # <<>> /\ Head(s) \in Whitespace THEN TrimStart(Tail(s)) ELSE s

RECURSIVE TrimEnd(_)
TrimEnd(s) ==
    IF s # <<>> /\ s[Len(s)] \in Whitespace
    THEN TrimEnd(SubSeq(s, 1, Len(s) - 1))
    ELSE s

Trim(s) == TrimEnd(TrimStart(s))

\* JavaScript truthiness of a string-or-null value: "" and null are falsy.
Falsy(v) == v = EmptyString \/ v = Null \/ v = Undefined

\* --------------------------------------------------------------- literals
SeedText == <<"Hej! Jag heter Backster och är din assistent här på Backstage. Vilken anställningsform har du?">>
AckText == <<"Tack, vad kan jag hjälpa dig med idag?">>
EmploymentTypes == {<<"Tillsvidare">>, <<"Säsong/Visstid">>}

BotMessage(t) == [fromBot |-> TRUE, text |-> t]
UserMessage(t) == [fromBot |-> FALSE, text |-> t]

\* ------------------------------------------------- the remote service
Tokens == {<<"tok">>}
AnswerTexts == {<<"svar">>}
DocLabels == {"Doc A", "Doc B"}
OtherDoc(label) == IF label = "Doc A" THEN "Doc B" ELSE "Doc A"
ContentOf(label) == IF label = "Doc A" THEN "<p>x</p>" ELSE "<p>y</p>"

\* The sources arrays the service answers with: up to MaxCites labels,
\* starting at either document and alternating (<<"Doc A", "Doc B">>, ...).
CiteArrays ==
    {[i \in 1..n |-> IF i % 2 = 1 THEN first ELSE OtherDoc(first)] :
        first \in DocLabels, n \in 0..MaxCites}

\* A 2xx /chat body: { text, sources, contents } with sources[i] labelling
\* contents[i].
ChatBodies ==
    {[text |-> t, sources |-> s, contents |-> [i \in 1..Len(s) |-> ContentOf(s[i])]] :
        t \in AnswerTexts, s \in CiteArrays}

\* A non-2xx body that is JSON all the same ({"detail": ...}): it has none of
\* the three fields, so data.text, data.sources and data.contents are undefined.
ErrorBody == [text |-> Undefined, sources |-> Undefined, contents |-> Undefined]

\* What the awaits of fetch("/chat") and response.json() can produce:
\* kind "reject" is a rejected fetch; otherwise ok is response.ok, parses tells
\* whether response.json() resolves, and json is what it resolves to.
NoOutcome == [kind |-> "none", ok |-> FALSE, parses |-> FALSE, json |-> ErrorBody]

ChatOutcomes ==
    {[kind |-> "reject", ok |-> FALSE, parses |-> FALSE, json |-> ErrorBody]}
    \cup {[kind |-> "http", ok |-> TRUE, parses |-> TRUE, json |-> b] : b \in ChatBodies}
    \cup {[kind |-> "http", ok |-> o, parses |-> FALSE, json |-> ErrorBody] : o \in BOOLEAN}
    \cup {[kind |-> "http", ok |-> FALSE, parses |-> TRUE, json |-> ErrorBody]}

\* What the await of fetch("/?key=...") can produce; header is X-Token
\* (headers.get gives null when the header is absent).
TokenOutcomes ==
    {[kind |-> "reject", ok |-> FALSE, header |-> Null]}
    \cup {[kind |-> "http", ok |-> o, header |-> h] :
            o \in BOOLEAN, h \in Tokens \cup {Null, EmptyString}}

\* ------------------------------------------------------------------ state
\* ------------------------------------------------------------------- park
\* parkMap and parkStyles, as records keyed by the park codes.
parkMap ==
    [glt |-> <<"Gröna Lund">>, kdp |-> <<"Kolmården">>,
     fvp |-> <<"Furuvik">>, ssl |-> <<"Skara Sommarland">>]

parkStyles ==
    [glt |-> <<"bg-glt-primary-600 text-white">>,
     kdp |-> <<"bg-kdp-primary-600 text-white">>,
     fvp |-> <<"bg-fvp-primary-600 text-white">>,
     ssl |-> <<"bg-ssl-primary-600 text-white">>]

\* The values of the park parameter tried: absent, a recognized code other
\* than the default, and a code that is not in the tables.
ParkQueries == {Null, <<"kdp">>, <<"xyz">>}

\* record[key]: undefined when the record has no such key.
Lookup(record, key) ==
    IF key[1] \in DOMAIN record THEN record[key[1]] ELSE Undefined

VARIABLES
    inputValue,      \* useState("")
    messages,        \* useState([seed])
    employmentType,  \* useState(null)
    token,           \* useState("")
    isTyping,        \* useState(false)
    contents,        \* useState([])
    sources,         \* useState([])
    tokenFetch,      \* fetchToken: "pending" at its await, then "done"
    pending,         \* sendMessage calls suspended at await fetch("/chat")
    nDispatch,       \* number of accepted sendMessage calls so far
    mounted,         \* FALSE once a render has thrown (React unmounts the tree)
    isModalOpen,     \* useState(false)
    currentIndex,    \* SourcesModal: useState(0); 0 while it is not mounted
    location,        \* queryParams.get('park') of the page's URL (null if absent)
    last             \* history: the operation that produced this state

vars == <<inputValue, messages, employmentType, token, isTyping, contents,
          sources, tokenFetch, pending, nDispatch, mounted, isModalOpen,
          currentIndex, location, last>>

modalVars == <<isModalOpen, currentIndex>>

\* queryParams.get('park') || 'glt'
parkParam == IF Falsy(location) THEN <<"glt">> ELSE location

park == Lookup(parkMap, parkParam)

parkStyle == Lookup(parkStyles, parkParam)

NoReq == [id |-> 0]
Did(op, req, out) == [op |-> op, req |-> req, out |-> out]

Init ==
    /\ inputValue = EmptyString
    /\ messages = <<BotMessage(SeedText)>>
    /\ employmentType = Null
    /\ token = EmptyString
    /\ isTyping = FALSE
    /\ contents = <<>>
    /\ sources = <<>>
    /\ tokenFetch = "pending"
    /\ pending = {}
    /\ nDispatch = 0
    /\ mounted = TRUE
    /\ isModalOpen = FALSE
    /\ currentIndex = 0
    /\ location \in ParkQueries
    /\ last = Did("init", NoReq, NoOutcome)

\* The render of App evaluates sources.length for every Bot message (the seed
\* message is one), which throws when sources is undefined.
RenderThrows(src) == src = Undefined

\* -------------------------------------------------------------- fetchToken
\* Mutant: the status of the response is not tested.
TokenAfterFetchNoOkCheck(out, tk) ==
    IF out.kind = "reject" THEN tk
    ELSE IF ~Falsy(out.header) THEN out.header
    ELSE tk

\* The value setToken is called with, or the token kept when it is not called.
TokenAfterFetch(out, tk) ==
    IF out.kind = "reject" THEN tk
    ELSE IF ~out.ok THEN tk
    ELSE IF ~Falsy(out.header) THEN out.header
    ELSE tk

fetchToken ==
    /\ mounted
    /\ tokenFetch = "pending"
    /\ \E out \in TokenOutcomes :
        /\ token' = TokenAfterFetch(out, token)
        /\ last' = Did(IF token' = token THEN "fetchToken:failed" ELSE "fetchToken:ok",
                       NoReq, out)
    /\ tokenFetch' = "done"
    /\ UNCHANGED <<inputValue, messages, employmentType, isTyping, contents,
                   sources, pending, nDispatch, mounted,
                   location>>
    /\ UNCHANGED modalVars

\* ---------------------------------------------------------------- textarea
\* <textarea disabled={employmentType === null}>
TextareaDisabled == employmentType = Null

onChange(v) ==
    /\ mounted
    /\ inputValue' = v
    /\ last' = Did("onChange", NoReq, NoOutcome)
    /\ UNCHANGED <<messages, employmentType, token, isTyping, contents, sources,
                   tokenFetch, pending, nDispatch, mounted,
                   location>>
    /\ UNCHANGED modalVars

\* A change event of the rendered textarea.
TypeText == ~TextareaDisabled /\ \E v \in InputValues : onChange(v)

\* --------------------------------------------- handleEmploymentTypeSelection
\* Mutant: the acknowledgement is appended by a later update.
MessagesAfterSelectionNoAck(type, prevMessages) ==
    prevMessages \o <<UserMessage(type)>>

\* Mutant: the acknowledgement is appended before the label.
MessagesAfterSelectionSwapped(type, prevMessages) ==
    prevMessages \o <<BotMessage(AckText), UserMessage(type)>>

\* setMessages(prevMessages => [...prevMessages, user, acknowledgement])
MessagesAfterSelection(type, prevMessages) ==
    prevMessages \o <<UserMessage(type), BotMessage(AckText)>>

\* Both setState calls are made in one event handler: one render follows.
handleEmploymentTypeSelection(type) ==
    /\ mounted
    /\ employmentType' = type
    /\ messages' = MessagesAfterSelection(type, messages)
    /\ last' = Did("handleEmploymentTypeSelection", [id |-> 0, type |-> type],
                   NoOutcome)
    /\ UNCHANGED <<inputValue, token, isTyping, contents, sources, tokenFetch,
                   pending, nDispatch, mounted,
                   location>>
    /\ UNCHANGED modalVars

\* The two buttons are rendered only while employmentType === null.
ClickEmploymentType ==
    /\ employmentType = Null
    /\ \E type \in EmploymentTypes : handleEmploymentTypeSelection(type)

\* -------------------------------------------------------------- sendMessage
\* Mutants of the early return: one condition dropped.
AcceptsNoToken(iv, tk, et) == ~(Falsy(Trim(iv)) \/ et = Null)
AcceptsNoGate(iv, tk, et) == ~(Falsy(Trim(iv)) \/ Falsy(tk))
AcceptsNoTrim(iv, tk, et) == ~(Falsy(iv) \/ Falsy(tk) \/ et = Null)

\* The negation of the early return of sendMessage.
Accepts(iv, tk, et) == ~(Falsy(Trim(iv)) \/ Falsy(tk) \/ et = Null)

\* The call suspended at the await: the closure's newMessages and the body
\* handed to fetch.  preSources and preContents record the citation arrays at
\* dispatch time (history only, the code does not keep them).
Request(id) ==
    [id |-> id,
     newMessages |-> messages \o <<UserMessage(inputValue)>>,
     session_id |-> token,
     query |-> inputValue,
     park |-> park,
     employmentType |-> employmentType,
     preSources |-> sources,
     preContents |-> contents]

\* Mutant: the input is cleared only once the answer has arrived.
InputValueAfterDispatchKept(iv) == iv

\* setInputValue("") right after the early return.
InputValueAfterDispatch(iv) == EmptyString

\* The send icon is always rendered, so the handler can run in every state;
\* Enter in the textarea calls the same handler.
sendMessage ==
    /\ mounted
    /\ IF Accepts(inputValue, token, employmentType)
       THEN /\ nDispatch < MaxDispatch
            /\ LET req == Request(nDispatch + 1) IN
                /\ inputValue' = InputValueAfterDispatch(inputValue)
                /\ isTyping' = TRUE
                /\ messages' = req.newMessages
                /\ pending' = pending \cup {req}
                /\ nDispatch' = nDispatch + 1
                /\ last' = Did("sendMessage:accepted", req, NoOutcome)
       ELSE /\ last' = Did("sendMessage:rejected", NoReq, NoOutcome)
            /\ UNCHANGED <<inputValue, isTyping, messages, pending, nDispatch>>
    /\ UNCHANGED <<employmentType, token, contents, sources, tokenFetch, mounted,
                   location>>
    /\ UNCHANGED modalVars

\* The try block throws when fetch rejects or response.json() cannot parse the
\* body; response.ok is not read.
Throws(out) == out.kind = "reject" \/ ~out.parses

\* Mutant: setIsTyping(false) at the end of the try block instead of in finally.
IsTypingAfterNoFinally(out, typing) == IF Throws(out) THEN typing ELSE FALSE

\* isTyping after the continuation: finally { setIsTyping(false) }.
IsTypingAfter(out, typing) == FALSE

\* Mutant: the catch block reports the failure as a Bot message.
MessagesAfterErrorBubble(req, out, msgs) ==
    IF Throws(out)
    THEN msgs \o <<BotMessage(<<"Fel">>)>>
    ELSE req.newMessages \o <<BotMessage(out.json.text)>>

\* Mutant: the answer is put in front of the log the call was made from.
MessagesAfterAnswerFirst(req, out, msgs) ==
    IF Throws(out)
    THEN msgs
    ELSE SubSeq(req.newMessages, 1, Len(req.newMessages) - 1)
            \o <<BotMessage(out.json.text), UserMessage(req.query)>>

\* messages after the continuation: setMessages([...newMessages, bot]) in the
\* try block, nothing in catch.
MessagesAfter(req, out, msgs) ==
    IF Throws(out)
    THEN msgs
    ELSE req.newMessages \o <<BotMessage(out.json.text)>>

\* Mutant: the catch block empties the labels.
SourcesAfterClearedOnFailure(out, src) ==
    IF Throws(out) THEN <<>> ELSE out.json.sources

\* sources after the continuation: setSources(data.sources) in the try block.
SourcesAfter(out, src) == IF Throws(out) THEN src ELSE out.json.sources

\* Mutant: setContents is left out.
ContentsAfterKept(out, cnt) == cnt

\* contents after the continuation: setContents(data.contents) in the try block.
ContentsAfter(out, cnt) == IF Throws(out) THEN cnt ELSE out.json.contents

\* The continuation of sendMessage after its awaits: try / catch / finally.
\* A mounted SourcesModal keeps its currentIndex when its props change.
ChatSettles(req, out) ==
    /\ mounted
    /\ req \in pending
    /\ pending' = pending \ {req}
    /\ messages' = MessagesAfter(req, out, messages)
    /\ contents' = ContentsAfter(out, contents)
    /\ sources' = SourcesAfter(out, sources)
    /\ IF Throws(out)
       THEN last' = Did("chat:failed", req, out)
       ELSE last' = Did("chat:answered", req, out)
    /\ isTyping' = IsTypingAfter(out, isTyping)
    /\ mounted' = ~RenderThrows(sources')
    /\ UNCHANGED <<inputValue, employmentType, token, tokenFetch, nDispatch,
                   isModalOpen, currentIndex, location>>

ChatResponse == \E req \in pending : \E out \in ChatOutcomes : ChatSettles(req, out)

\* ------------------------------------------------------------ SourcesModal
appVars == <<inputValue, messages, employmentType, token, isTyping, contents,
             sources, tokenFetch, pending, nDispatch, mounted, location>>

\* Mutant: the "Visa källor" button without the index > 2 condition.
OpenableAnyIndex(index) == messages[index + 1].fromBot /\ Len(sources) > 0

\* The "Visa källor" button of the message at (0-based) index is rendered.
Openable(index) ==
    messages[index + 1].fromBot /\ Len(sources) > 0 /\ index > 2

\* onClick of "Visa källor": setIsModalOpen(true).  SourcesModal is mounted
\* only while isModalOpen, so its currentIndex starts at 0 at every opening.
OpenModal ==
    /\ mounted
    /\ \E index \in 0..(Len(messages) - 1) :
        /\ Openable(index)
        /\ last' = Did(IF isModalOpen THEN "open:again" ELSE "open",
                       [id |-> 0, index |-> index], NoOutcome)
    /\ isModalOpen' = TRUE
    /\ currentIndex' = IF isModalOpen THEN currentIndex ELSE 0
    /\ UNCHANGED appVars

\* onClose: setIsModalOpen(false); SourcesModal is unmounted and its state
\* is discarded.
CloseModal ==
    /\ mounted
    /\ isModalOpen
    /\ isModalOpen' = FALSE
    /\ currentIndex' = 0
    /\ last' = Did("close", [id |-> 0, shown |-> currentIndex], NoOutcome)
    /\ UNCHANGED appVars

\* Mutant: the cursor advances without wrapping.
NextIndexNoWrap(prevIndex, length) == JsAdd(prevIndex, 1)

\* (prevIndex + 1) % sources.length
NextIndex(prevIndex, length) == JsRem(JsAdd(prevIndex, 1), length)

\* Mutant: the cursor stops at the first source instead of wrapping.
PreviousIndexNoWrap(prevIndex, length) ==
    IF prevIndex = NaN THEN NaN
    ELSE IF prevIndex = 0 THEN 0
    ELSE prevIndex - 1

\* (prevIndex - 1 + sources.length) % sources.length
PreviousIndex(prevIndex, length) == JsRem(JsAdd(prevIndex, length - 1), length)

\* History: how many handleNext calls in a row have followed the opening of
\* the browser, counted up to MaxNext (Untracked beyond, or when anything else
\* came in between).
Untracked == MaxNext + 1

NextsAfter(l) ==
    IF l.op = "open" THEN 1
    ELSE IF l.op = "handleNext" /\ l.req.nexts < MaxNext THEN l.req.nexts + 1
    ELSE Untracked

handleNext ==
    /\ mounted
    /\ isModalOpen
    /\ currentIndex' = NextIndex(currentIndex, Len(sources))
    /\ last' = Did("handleNext",
                   [id |-> 0, nexts |-> NextsAfter(last), before |-> currentIndex],
                   NoOutcome)
    /\ UNCHANGED appVars
    /\ UNCHANGED isModalOpen

handlePrevious ==
    /\ mounted
    /\ isModalOpen
    /\ currentIndex' = PreviousIndex(currentIndex, Len(sources))
    /\ last' = Did("handlePrevious",
                   [id |-> 0, before |-> currentIndex,
                    afterNext |-> last.op = "handleNext"],
                   NoOutcome)
    /\ UNCHANGED appVars
    /\ UNCHANGED isModalOpen

\* ---------------------------------------------------------- specifications
\* The events the rendered page can produce.
Next ==
    \/ fetchToken
    \/ TypeText
    \/ ClickEmploymentType
    \/ sendMessage
    \/ ChatResponse
    \/ OpenModal
    \/ CloseModal
    \/ handleNext
    \/ handlePrevious

Spec == Init /\ [][Next]_vars

\* Every pending /chat call eventually settles.
LiveSpec == Spec /\ WF_vars(ChatResponse)

\* The handlers called as callbacks: a change event delivered to the textarea
\* although it is disabled.
ChangeWhileDisabled == TextareaDisabled /\ \E v \in InputValues : onChange(v)

NextDirect == Next \/ ChangeWhileDisabled

SpecDirect == Init /\ [][NextDirect]_vars

\* handleEmploymentTypeSelection called as a callback although its buttons are
\* no longer rendered.
Acks == {i \in DOMAIN messages : messages[i] = BotMessage(AckText)}

SelectWhileHidden ==
    /\ employmentType # Null
    /\ Cardinality(Acks) <= MaxReselect
    /\ \E type \in EmploymentTypes : handleEmploymentTypeSelection(type)

NextReselect == Next \/ SelectWhileHidden

SpecReselect == Init /\ [][NextReselect]_vars

\* ------------------------------------------------------------------ claims
IsPrefix(s, t) == Len(s) <= Len(t) /\ SubSeq(t, 1, Len(s)) = s

\* Length of the log before the dispatch of req appended its User message.
PreLen(req) == Len(req.newMessages) - 1

\* What a rejected sendMessage must leave alone: everything but the history.
RejectedFrame ==
    UNCHANGED <<inputValue, messages, employmentType, token, isTyping, contents,
                sources, tokenFetch, pending, nDispatch, mounted, isModalOpen,
                currentIndex, location>>

\* C1: at most one chat request is pending in every reachable state (a
\* sendMessage made while an earlier one awaits its response is rejected).
AtMostOnePending == Cardinality(pending) <= 1

\* C2: the log is append-only: every step leaves the earlier log as a prefix
\* of the later one (no message is removed or replaced).
AppendOnlyLog == [][IsPrefix(messages, messages')]_vars

\* C3 as stated: the log grows by exactly 2 per successful exchange and by
\* exactly 0 per rejected dispatch and per failed dispatch (measured from the
\* log before the dispatch).
LogGrowthAsStated ==
    [][/\ (last'.op = "sendMessage:rejected" => Len(messages') = Len(messages))
       /\ (last'.op = "chat:answered" /\ last'.out.ok
              => Len(messages') = PreLen(last'.req) + 2)
       /\ (last'.op = "chat:failed" => Len(messages') = PreLen(last'.req))]_vars

\* C3 amended: a rejected dispatch changes the length by 0; an accepted one
\* appends exactly its User message; a successful response leaves the log 2
\* longer than it was before that dispatch; a failing response changes the
\* length by 0, so the User message of a failed dispatch stays.
LogGrowth ==
    [][/\ (last'.op = "sendMessage:rejected" => Len(messages') = Len(messages))
       /\ (last'.op = "sendMessage:accepted"
              => /\ Len(messages') = Len(messages) + 1
                 /\ PreLen(last'.req) = Len(messages))
       /\ (last'.op = "chat:answered" /\ last'.out.ok
              => Len(messages') = PreLen(last'.req) + 2)
       /\ (last'.op = "chat:failed" => Len(messages') = Len(messages))]_vars

\* C3 witness: a dispatch has failed and its User message is still in the log.
LogGrowthWitness ==
    /\ last.op = "chat:failed"
    /\ Len(messages) = PreLen(last.req) + 1
    /\ messages[Len(messages)] = UserMessage(last.req.query)

\* C4: after a dispatch whose network call failed, the log is the
\* pre-dispatch log plus its one User message, sources and contents are what
\* they were before the dispatch, and isTyping is false.
FailedDispatchState ==
    last.op = "chat:failed"
        => /\ messages = last.req.newMessages
           /\ sources = last.req.preSources
           /\ contents = last.req.preContents
           /\ isTyping = FALSE

\* C5: a /chat response with a non-2xx status appends no Bot message and
\* leaves sources and contents alone, like a thrown network error.
NonOkIsFailure ==
    [][(/\ last'.op \in {"chat:failed", "chat:answered"}
        /\ last'.out.kind = "http"
        /\ ~last'.out.ok)
          => /\ messages' = messages
             /\ sources' = sources
             /\ contents' = contents]_vars

\* C6: the in-flight flag is released on every exit path: given that every
\* pending call settles, isTyping = TRUE leads to isTyping = FALSE.
TypingReleased == (isTyping = TRUE) ~> (isTyping = FALSE)

\* C6 witness: a call settled through the catch block and the flag is down.
TypingReleasedWitness ==
    /\ last.op = "chat:failed"
    /\ isTyping = FALSE

\* C7: isTyping is true exactly when a chat response is pending.
TypingIffPending == isTyping <=> (pending # {})

\* C8: while the token is absent every sendMessage call is a no-op: the log,
\* isTyping and inputValue are unchanged and no request is issued.
NoTokenNoDispatch == [][(sendMessage /\ Falsy(token)) => RejectedFrame]_vars

\* C8 witness: the token fetch resolved with failure, the gate is Active, the
\* input is not blank, and sendMessage has just been called.
NoTokenNoDispatchWitness ==
    /\ last.op = "sendMessage:rejected"
    /\ tokenFetch = "done"
    /\ Falsy(token)
    /\ employmentType # Null
    /\ ~Falsy(Trim(inputValue))

\* C9: while employmentType is null every sendMessage call is a no-op
\* whatever the token and the input: the log stays the seed message, isTyping
\* stays false and no request is issued.
GateBlocksDispatch ==
    [][(sendMessage /\ employmentType = Null)
          => /\ RejectedFrame
             /\ messages' = <<BotMessage(SeedText)>>
             /\ isTyping' = FALSE
             /\ pending' = {}]_vars

\* C9 witness: sendMessage has just been called with a token and a non-blank
\* input while employmentType is null.
GateBlocksDispatchWitness ==
    /\ last.op = "sendMessage:rejected"
    /\ employmentType = Null
    /\ ~Falsy(token)
    /\ ~Falsy(Trim(inputValue))

\* C10: sendMessage with an input that is empty after trimming, the gate
\* Active and a token present, leaves the log, isTyping, the citation arrays
\* and the input unchanged and issues no request.
BlankInputNoDispatch ==
    [][(/\ sendMessage
        /\ Falsy(Trim(inputValue))
        /\ employmentType # Null
        /\ ~Falsy(token))
          => RejectedFrame]_vars

\* C10 witness: sendMessage has just been called on a whitespace-only input
\* with the gate Active and a token present.
BlankInputNoDispatchWitness ==
    /\ last.op = "sendMessage:rejected"
    /\ inputValue = <<" ">>
    /\ employmentType # Null
    /\ ~Falsy(token)

\* C11: while employmentType is null the log is the 1-message seed log; once
\* it is set the log holds, right after the seed, the User message with the
\* chosen label followed by the fixed acknowledgement, so no state has
\* employmentType set with fewer than both messages appended or only one of
\* them in the log; the selection made from the seed log leaves a 3-message
\* log with employmentType equal to the label.
SelectionIsAtomic ==
    /\ employmentType = Null => messages = <<BotMessage(SeedText)>>
    /\ employmentType # Null =>
        /\ Len(messages) >= 3
        /\ SubSeq(messages, 1, 3) = <<BotMessage(SeedText),
                                      UserMessage(employmentType),
                                      BotMessage(AckText)>>
    /\ last.op = "handleEmploymentTypeSelection" =>
        /\ employmentType = last.req.type
        /\ messages = <<BotMessage(SeedText), UserMessage(last.req.type),
                        BotMessage(AckText)>>

SelectionIsAtomicWitness ==
    /\ last.op = "handleEmploymentTypeSelection"
    /\ employmentType = <<"Tillsvidare">>
    /\ Len(messages) = 3

SuccessAppendsAndReplaces ==
    [][(last'.op = "chat:answered" /\ last'.out.ok)
        => /\ messages' = messages \o <<BotMessage(last'.out.json.text)>>
           /\ sources' = last'.out.json.sources
           /\ contents' = last'.out.json.contents]_vars

\* C14: in every state of the mounted page in which sources is non-empty the
\* cursor of the source browser satisfies 0 <= currentIndex < sources.length.
CursorInRange ==
    (mounted /\ Len(sources) > 0)
        => (currentIndex >= 0 /\ currentIndex < Len(sources))

\* C15: in every state of the mounted page sources and contents have the same
\* length (every response body that carries the arrays carries them with equal
\* lengths; a body without them makes the next render throw).
SameLength == mounted => Len(sources) = Len(contents)

\* A later response has replaced a shorter pair of arrays by a pair of two.
SameLengthWitness ==
    /\ mounted
    /\ last.op = "chat:answered"
    /\ Len(last.req.preSources) = 1
    /\ Len(sources) = 2
    /\ Len(contents) = 2

\* C16: the browser opens with cursor 0; over a non-empty sources array of
\* length L, handleNext takes a cursor c to (c + 1) mod L and handlePrevious
\* takes it to (c - 1 + L) mod L; after k calls of handleNext in a row from
\* the opening the cursor is k mod L.
NavigationWraps ==
    [][/\ last'.op = "open" => currentIndex' = 0
       /\ (last'.op = "handleNext" /\ Len(sources) > 0 /\ currentIndex >= 0)
            => currentIndex' = (currentIndex + 1) % Len(sources)
       /\ (last'.op = "handlePrevious" /\ Len(sources) > 0 /\ currentIndex >= 0)
            => currentIndex' = (currentIndex - 1 + Len(sources)) % Len(sources)
       /\ (last'.op = "handleNext" /\ last'.req.nexts <= MaxNext)
            => /\ Len(sources') > 0
               /\ currentIndex' = last'.req.nexts % Len(sources')]_vars

\* Over two sources the second handleNext after the opening wraps to 0.
NavigationWrapsWitness ==
    /\ last.op = "handleNext"
    /\ last.req.nexts = 2
    /\ Len(sources) = 2
    /\ isModalOpen
    /\ currentIndex = 0

\* C17: handleNext and handlePrevious are never taken over an empty sources
\* array, or, when they are, they change no state.
NoNavigationOverEmpty ==
    [][(last'.op \in {"handleNext", "handlePrevious"} /\ Len(sources) = 0)
        => RejectedFrame]_vars

\* C18: isModalOpen becomes true only by the "Visa källor" button of a Bot
\* message that carries the answer of a dispatch (never the seed message or
\* the acknowledgement of the selection), and only while sources is non-empty.
OpenOnlyFromAnswer ==
    [][(~isModalOpen /\ isModalOpen')
        => /\ last'.op = "open"
           /\ Len(sources') > 0
           /\ nDispatch' > 0
           /\ last'.req.index + 1 \in DOMAIN messages'
           /\ LET message == messages'[last'.req.index + 1] IN
                /\ message.fromBot
                /\ message.text \in AnswerTexts
                /\ message.text \notin {SeedText, AckText}]_vars

\* The browser opened from the first answer, the fifth message of the log.
OpenOnlyFromAnswerWitness ==
    /\ last.op = "open"
    /\ isModalOpen
    /\ last.req.index = 4
    /\ messages[5] = BotMessage(<<"svar">>)
    /\ Len(sources) > 0

\* C19: closing the browser keeps its cursor: opened again right after the
\* close, over the same sources, it shows the cursor it showed when closed.
CloseKeepsCursor ==
    [][(last.op = "close" /\ last'.op = "open")
        => (sources' = sources /\ contents' = contents
            /\ currentIndex' = last.req.shown)]_vars

\* C20: the token request is made once: after it has settled neither it nor
\* the token changes again; the token changes only when the request settles
\* with a success status and a non-empty X-Token header, and then to that
\* header; a request that fails (rejected fetch, non-success status, missing
\* header) leaves the token absent; and while the token is absent no /chat
\* request has been issued.
TokenOneShot ==
    [][/\ tokenFetch = "done" => (tokenFetch' = "done" /\ token' = token)
       /\ token' # token
            => /\ tokenFetch = "pending" /\ tokenFetch' = "done"
               /\ Falsy(token)
               /\ last'.op = "fetchToken:ok"
               /\ last'.out.kind = "http" /\ last'.out.ok
               /\ token' = last'.out.header
               /\ token' \in Tokens
       /\ (tokenFetch = "pending" /\ tokenFetch' = "done"
            /\ (last'.out.kind = "reject" \/ ~last'.out.ok \/ Falsy(last'.out.header)))
            => (Falsy(token') /\ last'.op = "fetchToken:failed")
       /\ Falsy(token') => (nDispatch' = 0 /\ pending' = {})]_vars

\* The token request has settled with a non-success status although the
\* response carried an X-Token header: the token stays absent.
TokenOneShotWitness ==
    /\ last.op = "fetchToken:failed"
    /\ last.out.kind = "http"
    /\ ~last.out.ok
    /\ last.out.header \in Tokens
    /\ tokenFetch = "done"
    /\ Falsy(token)
    /\ nDispatch = 0

\* C21: the step that accepts a dispatch empties inputValue, sets isTyping,
\* appends the User message and leaves the request pending; the settling of a
\* request, failed or not, leaves inputValue as it is; inputValue becomes
\* non-empty only by a change event of the textarea.
ClearedAtDispatch ==
    [][/\ last'.op = "sendMessage:accepted"
            => /\ inputValue' = EmptyString
               /\ isTyping'
               /\ messages' = messages \o <<UserMessage(inputValue)>>
               /\ last'.req \in pending'
       /\ last'.op \in {"chat:failed", "chat:answered"} => inputValue' = inputValue
       /\ (inputValue' # inputValue /\ inputValue' # EmptyString)
            => last'.op = "onChange"]_vars

\* A dispatch of a non-empty text has failed and the input is empty.
ClearedAtDispatchWitness ==
    /\ last.op = "chat:failed"
    /\ last.req.query = <<" ", "a", " ">>
    /\ inputValue = EmptyString
    /\ ~isTyping

\* C22: the park label and the style key are never undefined: a recognized
\* code gives its own entries, an absent or unrecognized code gives the
\* entries of glt, and no pending request carries an undefined park.
ParkResolutionTotal ==
    /\ park # Undefined
    /\ parkStyle # Undefined
    /\ IF location \in {<<code>> : code \in DOMAIN parkMap}
       THEN park = parkMap[location[1]] /\ parkStyle = parkStyles[location[1]]
       ELSE park = parkMap.glt /\ parkStyle = parkStyles.glt
    /\ \A req \in pending : req.park # Undefined

\* C23: the request issued by an accepted dispatch carries the current token,
\* the input with leading and trailing whitespace removed as its query, the
\* resolved park and the current employmentType, which is not null.
RequestCarriesTrimmedQuery ==
    [][last'.op = "sendMessage:accepted"
        => /\ last'.req.session_id = token
           /\ ~Falsy(token)
           /\ last'.req.query = Trim(inputValue)
           /\ last'.req.park = park
           /\ last'.req.employmentType = employmentType
           /\ employmentType # Null]_vars

\* C24: the log is the seed message, then, once a type is chosen, the User
\* label and the acknowledgement, then the entries of dispatches: every Bot
\* message after the third is immediately preceded by a User message, and the
\* continuation of a dispatch puts its Bot answer right after the User message
\* that this same dispatch appended; there are no more User entries than
\* dispatches and no more Bot answers than User entries.
DispatchEntries == {i \in DOMAIN messages : i > 3}

LogShape ==
    /\ messages[1] = BotMessage(SeedText)
    /\ employmentType = Null => Len(messages) = 1
    /\ employmentType # Null =>
        /\ Len(messages) >= 3
        /\ messages[2] = UserMessage(employmentType)
        /\ messages[3] = BotMessage(AckText)
    /\ \A i \in DispatchEntries :
        messages[i].fromBot => (i - 1 > 3 /\ ~messages[i - 1].fromBot)
    /\ Cardinality({i \in DispatchEntries : ~messages[i].fromBot}) <= nDispatch
    /\ Cardinality({i \in DispatchEntries : messages[i].fromBot})
        <= Cardinality({i \in DispatchEntries : ~messages[i].fromBot})

LogOrdered ==
    [][/\ LogShape'
       /\ last'.op = "sendMessage:accepted"
            => messages'[Len(messages')] = UserMessage(last'.req.query)
       /\ last'.op = "chat:answered"
            => LET n == Len(messages') IN
                /\ n = Len(last'.req.newMessages) + 1
                /\ messages'[n] = BotMessage(last'.out.json.text)
                /\ messages'[n - 1] = UserMessage(last'.req.query)
                /\ SubSeq(messages', 1, n - 1) = last'.req.newMessages]_vars

\* Two dispatches answered one after the other: seed, label, acknowledgement,
\* question, answer, question, answer.
LogOrderedWitness ==
    /\ last.op = "chat:answered"
    /\ last.req.id = 2
    /\ Len(messages) = 7
    /\ messages[5].fromBot /\ ~messages[6].fromBot /\ messages[7].fromBot

\* C25: sources and contents are the arrays returned with the last Bot answer
\* present in the log: they are empty while the log holds no answer; the
\* continuation of an answered dispatch makes its Bot message the last answer
\* of the log and sets both arrays to those of its response; every other step,
\* a failed dispatch included, leaves the arrays and the last answer as they
\* are.
LastAnswerIndex(msgs) ==
    LET answers == {i \in DOMAIN msgs : i > 3 /\ msgs[i].fromBot} IN
    IF answers = {} THEN 0
    ELSE CHOOSE i \in answers : \A j \in answers : j <= i

CitationsOfLastAnswer ==
    [][/\ (mounted' /\ LastAnswerIndex(messages') = 0)
            => (sources' = <<>> /\ contents' = <<>>)
       /\ IF last'.op = "chat:answered"
          THEN /\ LastAnswerIndex(messages') = Len(messages')
               /\ messages'[Len(messages')] = BotMessage(last'.out.json.text)
               /\ sources' = last'.out.json.sources
               /\ contents' = last'.out.json.contents
          ELSE /\ sources' = sources
               /\ contents' = contents
               /\ LastAnswerIndex(messages') = LastAnswerIndex(messages)
               /\ LastAnswerIndex(messages) > 0
                    => messages'[LastAnswerIndex(messages)]
                        = messages[LastAnswerIndex(messages)]]_vars

\* A second dispatch has failed after a first answer that came with two
\* sources: the arrays are still those of the first answer.
CitationsOfLastAnswerWitness ==
    /\ last.op = "chat:failed"
    /\ last.req.id = 2
    /\ LastAnswerIndex(messages) = 5
    /\ Len(messages) = 6
    /\ Len(sources) = 2
    /\ sources = last.req.preSources

\* C26: the first message is always the seed; employmentType is set exactly
\* when the log has at least three messages of which the second is the User
\* message with the chosen label and the third the acknowledgement; every Bot
\* message after the third is the answer of a dispatch, not the seed and not
\* the acknowledgement.
OnboardingPrefix ==
    /\ messages[1] = BotMessage(SeedText)
    /\ (employmentType # Null)
        <=> /\ Len(messages) >= 3
            /\ \E type \in EmploymentTypes : messages[2] = UserMessage(type)
            /\ messages[3] = BotMessage(AckText)
    /\ employmentType # Null => messages[2] = UserMessage(employmentType)
    /\ \A i \in DOMAIN messages :
        (i > 3 /\ messages[i].fromBot)
            => /\ nDispatch > 0
               /\ messages[i].text \notin {SeedText, AckText}
               /\ mounted => messages[i].text \in AnswerTexts

\* The other label chosen and a first dispatch answered.
OnboardingPrefixWitness ==
    /\ employmentType = <<"Säsong/Visstid">>
    /\ last.op = "chat:answered"
    /\ Len(messages) = 5
    /\ messages[5] = BotMessage(<<"svar">>)

\* C27: over a non-empty sources array of length L and a cursor c with
\* 0 <= c < L, handleNext followed by handlePrevious and handlePrevious
\* followed by handleNext give c again, and so do L calls of handleNext in a
\* row and L calls of handlePrevious in a row; neither handler changes
\* sources, contents, the log or isModalOpen.
InRange(cursor, length) == length > 0 /\ cursor >= 0 /\ cursor < length

\* The cursor after k calls of handleNext, of handlePrevious, in a row.
RECURSIVE NextTimes(_, _, _)
NextTimes(k, cursor, length) ==
    IF k = 0 THEN cursor ELSE NextTimes(k - 1, NextIndex(cursor, length), length)

RECURSIVE PreviousTimes(_, _, _)
PreviousTimes(k, cursor, length) ==
    IF k = 0 THEN cursor
    ELSE PreviousTimes(k - 1, PreviousIndex(cursor, length), length)

NavigationInverse ==
    [][/\ (last.op = "handleNext" /\ last'.op = "handlePrevious"
            /\ InRange(last.req.before, Len(sources)))
            => currentIndex' = last.req.before
       /\ (last.op = "handlePrevious" /\ last'.op = "handleNext"
            /\ InRange(last.req.before, Len(sources)))
            => currentIndex' = last.req.before
       /\ (last'.op \in {"handleNext", "handlePrevious"}
            /\ InRange(currentIndex, Len(sources)))
            => /\ currentIndex' = IF last'.op = "handleNext"
                                  THEN NextTimes(1, currentIndex, Len(sources))
                                  ELSE PreviousTimes(1, currentIndex, Len(sources))
               /\ IF last'.op = "handleNext"
                  THEN NextTimes(Len(sources) - 1, currentIndex', Len(sources))
                        = currentIndex
                  ELSE PreviousTimes(Len(sources) - 1, currentIndex', Len(sources))
                        = currentIndex
               /\ NextTimes(Len(sources), currentIndex, Len(sources)) = currentIndex
               /\ PreviousTimes(Len(sources), currentIndex, Len(sources))
                    = currentIndex
       /\ last'.op \in {"handleNext", "handlePrevious"}
            => UNCHANGED <<sources, contents, messages, isModalOpen>>]_vars

\* handleNext and then handlePrevious over two sources, from the second
\* source, are back at the second source.
NavigationInverseWitness ==
    /\ last.op = "handlePrevious"
    /\ last.req.afterNext
    /\ last.req.before = 0
    /\ Len(sources) = 2
    /\ currentIndex = 1
    /\ isModalOpen

====
